---- MODULE Spec2Model ----
(***************************************************************************)
(* AdvancedCacheManager: the in-memory store (RamHandler) with its TTL     *)
(* sweep / size eviction background thread, modelled from                  *)
(* src/include/storage/RamHandler.h; the storage router (StorageHandler.h) *)
(* with the durable store (DiskHandler.h) behind it; and the thread pool   *)
(* of the event bus (EventBus.h).                                          *)
(*                                                                         *)
(* Spec and LiveSpec drive the memory store directly, TeardownSpec adds    *)
(* its destructor's join, RouterSpec sends requests through the router to  *)
(* both tiers, PoolSpec loads the pool, BusSpec subscribes, unsubscribes   *)
(* and sends on the bus, DispatchSpec follows the tasks send has queued.   *)
(*                                                                         *)
(* Time is counted in ticks of 500 ms (the worker's wait interval), so one *)
(* second of TTL is TicksPerSecond ticks.  Strings are named by literals;  *)
(* size(s) gives the length of the std::string the literal stands for.     *)
(***************************************************************************)
EXTENDS Integers, Sequences, FiniteSets, TLC

(* ------------------------------ bounds -------------------------------- *)
\* number of SET requests a behaviour may issue
MaxSets == 3
\* last clock tick the model follows
MaxTime == 2
\* number of requests a behaviour hands to the router
MaxRequests == 3
\* number of messages a behaviour's callers get accepted by EventBus::send
MaxSends == 2

(* ------------------------- program constants -------------------------- *)
\* sizeof(std::string), sizeof(Clock::time_point), sizeof(EvictionIterator)
SizeofString == 32
SizeofTimePoint == 8
SizeofIterator == 8
\* capacity of a std::string that holds its characters in place
SsoCapacity == 15
\* constructor argument maxSizeMB as the tests and the size scenario use it
maxSizeMB == 1
maxSizeBytes_ == maxSizeMB * 1024 * 1024
\* const std::chrono::milliseconds interval(500), in ticks
interval == 1
\* std::chrono::seconds(1), in ticks
TicksPerSecond == 2
\* Clock::time_point::max(), the "never expires" instant, as the largest
\* 32-bit integer
time_point_max == 2147483647
\* length of the large value: std::string largeValue(1024 * 1024, 'A')
BigLen == 1024 * 1024
\* EventBus() : threadPool(20)
numThreads == 20

Keys == {"k1", "k2"}
Values == {"v", "V"}
Groups == {"g1", "g2"}
TTLs == {0, 1}
\* spare capacity of msg.key beyond the capacity of a copy of it, for a key
\* the client built by concatenation ("evictTest:key" + std::to_string(100)
\* has capacity 30, its copy in the map 16)
KeySlack == 14

size(s) ==
    CASE s \in Keys -> 16
      [] s = "V" -> BigLen
      [] s = "v" -> 1
      [] s = "" -> 0
      [] OTHER -> 2

\* capacity() of a string that was copy-constructed or copy-assigned into a
\* fresh std::string: the store's key (store_[msg.key]) and entry.value,
\* entry.group (entry.value = msg.value)
capacity(s) == IF size(s) <= SsoCapacity THEN SsoCapacity ELSE size(s)

\* msg.key.capacity() of a SET message: "k1" was assigned from a literal,
\* "k2" was built by concatenation and carries spare capacity
MsgKeyCapacity(key) == IF key = "k2" THEN capacity(key) + KeySlack ELSE capacity(key)

VARIABLES
    store_,          \* std::unordered_map<std::string, RamEntry>
    evictionQueue_,  \* std::multimap<time_point, key>, as the sorted sequence of its nodes
    currentUsage_,   \* size_t currentUsage_
    stopThread_,     \* bool stopThread_
    mutex_,          \* std::mutex mutex_: "free", or who holds it: "set", "bg"
    clock,           \* Clock::now()
    setCtx,          \* the handleSetEvent call inside its critical section
    bgPc,            \* position of backgroundChecker: "waiting", "evicting", "exited"
    bgNow,           \* backgroundChecker's local `now`
    bgWaitStart,     \* instant the current cv_.wait_for began
    dtorPc,          \* ~RamHandler: "alive", "joining", "done"
    resp,            \* reply produced by the step just taken (with its request)
    setCount,        \* SET requests issued so far
    lastCycleNow,    \* `now` of the last completed worker cycle, -1 before the first
    hist             \* per key: the entry of the latest completed set and what removed it

vars == <<store_, evictionQueue_, currentUsage_, stopThread_, mutex_, clock,
          setCtx, bgPc, bgNow, bgWaitStart, dtorPc, resp, setCount,
          lastCycleNow, hist>>

\* the bus, the durable store and the requests travelling through the router
VARIABLES
    handlers_,       \* EventBus::handlers_.map: handler id -> message type -> callback
    disk_,           \* the rows of the SQLite table `store`: key -> value, group_name
    requests,        \* per client connection: its request on its way through the router
    reqCount,        \* requests handed to the router so far
    lastWrite        \* per key: the latest completed router write, none while one is under way

rvars == <<handlers_, disk_, requests, reqCount, lastWrite>>

\* the bus's thread pool under load
VARIABLES
    tasks,           \* ThreadPool::tasks, the queue of enqueued tasks
    blocked,         \* workers inside a router handler, blocked in future.get()
    sent,            \* requests the connections handed to the bus so far
    bus,             \* the latest subscribe, unsubscribe or send on the bus, with its outcome
    handled          \* calls of subscribed callbacks the pool threads have made so far

pvars == <<tasks, blocked, sent, bus, handled>>

\* a step outside the memory tier leaves no reply of it behind
RamUntouched ==
    /\ resp' = [op |-> "none"]
    /\ UNCHANGED <<store_, evictionQueue_, currentUsage_, stopThread_, mutex_,
                   clock, setCtx, bgPc, bgNow, bgWaitStart, dtorPc, setCount,
                   lastCycleNow, hist>>

NoSet == [key |-> "none"]
NoResp == [op |-> "none"]
NoHist == [removedBy |-> "unset"]

(* ----------------------------- helpers -------------------------------- *)

\* RamHandler::calculateExactEntryUsage(key, entry); keyCapacity is
\* key.capacity() of the std::string object the caller passes as key
calculateExactEntryUsage(keyCapacity, entry) ==
    SizeofString + keyCapacity
    + SizeofString + capacity(entry.value)
    + SizeofString + capacity(entry.group)
    + SizeofTimePoint + SizeofTimePoint
    + SizeofIterator

\* usage of a stored entry: calculateExactEntryUsage(it->first, it->second)
StoredUsage(st, k) == calculateExactEntryUsage(capacity(k), st[k])

RECURSIVE SumUsage(_, _)
SumUsage(st, ks) ==
    IF ks = {} THEN 0
    ELSE LET k == CHOOSE x \in ks : TRUE
         IN StoredUsage(st, k) + SumUsage(st, ks \ {k})

\* entry.expirationTime as handleSetEvent computes it
ExpirationFromEpoch(now, ttl) ==
    IF ttl > 0 THEN ttl * TicksPerSecond ELSE time_point_max
ExpirationTime(now, ttl) ==
    IF ttl > 0 THEN now + ttl * TicksPerSecond ELSE time_point_max

\* evictionQueue_.insert({time, key}): std::multimap places the node after
\* every node whose time is not later (upper bound)
QueueInsertFront(q, node) ==
    LET n == Cardinality({i \in 1..Len(q) : q[i].time < node.time})
    IN SubSeq(q, 1, n) \o <<node>> \o SubSeq(q, n + 1, Len(q))
QueueInsert(q, node) ==
    LET n == Cardinality({i \in 1..Len(q) : q[i].time <= node.time})
    IN SubSeq(q, 1, n) \o <<node>> \o SubSeq(q, n + 1, Len(q))

\* the node a multimap insert allocates: the first one not in use
FreshNode(q) ==
    CHOOSE n \in 1..(Len(q) + 1) : \A i \in 1..Len(q) : q[i].id # n

\* evictionQueue_.erase(it): removes the node the iterator designates
QueueEraseForgotten(q, ids) == q
QueueErase(q, ids) ==
    LET keep(n) == n.id \notin ids IN SelectSeq(q, keep)

\* store_.erase for a set of keys; DELETE FROM store for a set of rows
StoreEraseNothing(st, ks) == st
StoreErase(st, ks) == [k \in (DOMAIN st) \ ks |-> st[k]]

\* store_[key] = std::move(entry)
StorePut(st, key, entry) ==
    [k \in (DOMAIN st) \cup {key} |-> IF k = key THEN entry ELSE st[k]]

\* the TTL test of the sweep: now >= it->second.expirationTime
ExpiredStrict(now, entry) == now > entry.expirationTime
ExpiredByInsertion(now, entry) == now >= entry.insertionTime + interval
Expired(now, entry) == now >= entry.expirationTime

\* the size-eviction loop condition
EvictionAlways(usage, q) == q # <<>>
EvictionNever(usage, q) == FALSE
EvictionNeeded(usage, q) == usage > maxSizeBytes_ /\ q # <<>>

\* evictionQueue_.begin()
EvictionBack(q) == q[Len(q)]
EvictionFront(q) == q[1]

\* std::lock_guard / std::unique_lock on mutex_ can be taken
NoLock == TRUE
TryLock == mutex_ = "free"

\* iteration orders of an unordered_map restricted to the keys ks
Orderings(ks) ==
    {s \in [1..Cardinality(ks) -> ks] :
        \A i, j \in 1..Cardinality(ks) : i # j => s[i] # s[j]}

\* hist with the keys ks marked as removed by `why`
Removed(h, ks, why) ==
    [k \in Keys |-> IF k \in ks /\ h[k].removedBy = "none"
                    THEN [h[k] EXCEPT !.removedBy = why] ELSE h[k]]

\* hist once the keys ks were deleted on request
Deleted(h, ks) == [k \in Keys |-> IF k \in ks THEN NoHist ELSE h[k]]

(* ---------------------- bus, router, durable store ---------------------- *)

\* client connections: a connection is served by its own
\* SocketHandler::handleClient thread, which hands one request at a time to
\* the router and waits for the reply
Clients == {"c1"}

\* the message types the three storage components subscribe to
MessageTypes ==
    {"SetEventMessage", "GetKeyEventMessage", "GetGroupEventMessage",
     "DeleteKeyEventMessage", "DeleteGroupEventMessage", "ListEventMessage"}

\* handlers_.map once main() has constructed RamHandler, DiskHandler and
\* StorageHandler: DiskHandler registers no handler for ListEventMessage.
\* A callback is named after the component whose lambda it is
Subscriptions ==
    [id \in {"RamHandler", "DiskHandler", "StorageHandler"} |->
        [type \in (IF id = "DiskHandler" THEN MessageTypes \ {"ListEventMessage"}
                   ELSE MessageTypes) |-> id]]

\* EventBus::send, lines 190-201: the what() of the exception it throws, ""
\* when the task is enqueued
SendErrorSwapped(map, id, type) ==
    IF id \notin DOMAIN map THEN "Event not found!"
    ELSE IF type \notin DOMAIN map[id] THEN "Handler not found!"
    ELSE ""
SendError(map, id, type) ==
    IF id \notin DOMAIN map THEN "Handler not found!"
    ELSE IF type \notin DOMAIN map[id] THEN "Event not found!"
    ELSE ""

\* handleSetEvent, line 77: the tier a set is forwarded to
SetTargetFlipped(persistent) == IF persistent THEN "RamHandler" ELSE "DiskHandler"
SetTarget(persistent) == IF persistent THEN "DiskHandler" ELSE "RamHandler"

\* a connection with no request under way
NoRequest ==
    [op |-> "none", key |-> "", value |-> "", group |-> "", persistent |-> FALSE,
     ttl |-> 0, pc |-> "idle", ram |-> "none", disk |-> "none",
     ramResp |-> "none", diskResp |-> "none", reply |-> [ok |-> FALSE, error |-> "none"],
     seen |-> [kind |-> "none"],
     id |-> "", ramId |-> "none", diskId |-> "none", replyId |-> "none"]

NoWrite == [kind |-> "none"]

\* no call on the bus yet
NoCall == [op |-> "none"]

\* the router's reply for an exception that left the handler: the future
\* rethrows it and handleClient writes {"error": e.what()}
ErrorReply(what) == [ok |-> FALSE, error |-> what]
OkReply(response) == [ok |-> TRUE, response |-> response]

(* ------------------------------- Init --------------------------------- *)

Init ==
    /\ store_ = [k \in {} |-> NoSet]
    /\ evictionQueue_ = <<>>
    /\ currentUsage_ = 0
    /\ stopThread_ = FALSE
    /\ mutex_ = "free"
    /\ clock = 0
    /\ setCtx = NoSet
    /\ bgPc = "waiting"
    /\ bgNow = 0
    /\ bgWaitStart = 0
    /\ dtorPc = "alive"
    /\ resp = NoResp
    /\ setCount = 0
    /\ lastCycleNow = -1
    /\ hist = [k \in Keys |-> NoHist]
    /\ handlers_ = Subscriptions
    /\ disk_ = [k \in {} |-> NoSet]
    /\ requests = [c \in Clients |-> NoRequest]
    /\ reqCount = 0
    /\ lastWrite = [k \in Keys |-> NoWrite]
    /\ tasks = <<>>
    /\ blocked = 0
    /\ sent = 0
    /\ bus = NoCall
    /\ handled = 0

(* ------------------------------ actions ------------------------------- *)

\* steady_clock advances by one tick.  A critical section is short against
\* the 500 ms tick: an instant read at its start is still current at its end
Tick ==
    /\ clock < MaxTime
    /\ mutex_ = "free"
    /\ clock' = clock + 1
    /\ resp' = NoResp
    /\ UNCHANGED <<store_, evictionQueue_, currentUsage_, stopThread_, mutex_,
                   setCtx, bgPc, bgNow, bgWaitStart, dtorPc, setCount,
                   lastCycleNow, hist>>

\* handleSetEvent, lines 138-165: lock, drop the old entry, build the new
\* entry, insert its node, add its usage.  MaxSets and MaxTime cap the
\* requests a behaviour issues
SetBegin(key, value, group, ttl, keyCapacity) ==
    /\ dtorPc = "alive"
    /\ TryLock
    /\ setCount < MaxSets
    /\ clock < MaxTime
    /\ LET now == clock
           present == key \in DOMAIN store_
           usage1 == IF present
                     THEN currentUsage_ - StoredUsage(store_, key)
                     ELSE currentUsage_
           queue1 == IF present
                     THEN QueueErase(evictionQueue_, {store_[key].evictionIt})
                     ELSE evictionQueue_
           id == FreshNode(queue1)
           entry == [value |-> value,
                     group |-> group,
                     insertionTime |-> now,
                     expirationTime |-> ExpirationTime(now, ttl),
                     evictionIt |-> id]
       IN /\ store_' = StoreErase(store_, {key})
          /\ evictionQueue_' = QueueInsert(queue1, [time |-> now, key |-> key, id |-> id])
          /\ currentUsage_' = usage1 + calculateExactEntryUsage(keyCapacity, entry)
          /\ setCtx' = [key |-> key, value |-> value, group |-> group,
                         ttl |-> ttl, entry |-> entry, replaced |-> present]
    /\ mutex_' = "set"
    /\ setCount' = setCount + 1
    /\ resp' = NoResp
    /\ UNCHANGED <<stopThread_, clock, bgPc, bgNow, bgWaitStart, dtorPc,
                   lastCycleNow, hist>>

\* handleSetEvent, lines 166-173: store the entry, reply, unlock
SetEnd ==
    /\ mutex_ = "set"
    /\ store_' = StorePut(store_, setCtx.key, setCtx.entry)
    /\ resp' = [op |-> "set", key |-> setCtx.key, value |-> setCtx.value,
                group |-> setCtx.group, ttl |-> setCtx.ttl, now |-> clock,
                replaced |-> setCtx.replaced, response |-> TRUE]
    /\ hist' = [hist EXCEPT ![setCtx.key] =
                   [value |-> setCtx.entry.value,
                    expirationTime |-> setCtx.entry.expirationTime,
                    removedBy |-> "none"]]
    /\ setCtx' = NoSet
    /\ mutex_' = "free"
    /\ UNCHANGED <<evictionQueue_, currentUsage_, stopThread_, clock, bgPc,
                   bgNow, bgWaitStart, dtorPc, setCount, lastCycleNow>>

\* handleGetKeyEvent
GetKeyRefreshes(key) ==
    /\ dtorPc = "alive"
    /\ TryLock
    /\ resp' = [op |-> "get_key", key |-> key, now |-> clock,
                response |-> IF key \in DOMAIN store_
                             THEN store_[key].value ELSE ""]
    /\ evictionQueue_' =
           IF key \in DOMAIN store_
           THEN QueueInsert(QueueErase(evictionQueue_, {store_[key].evictionIt}),
                            [time |-> clock, key |-> key, id |-> store_[key].evictionIt])
           ELSE evictionQueue_
    /\ UNCHANGED <<store_, currentUsage_, stopThread_, mutex_,
                   clock, setCtx, bgPc, bgNow, bgWaitStart, dtorPc, setCount,
                   lastCycleNow, hist>>
GetKey(key) ==
    /\ dtorPc = "alive"
    /\ TryLock
    /\ resp' = [op |-> "get_key", key |-> key, now |-> clock,
                response |-> IF key \in DOMAIN store_
                             THEN store_[key].value ELSE ""]
    /\ UNCHANGED <<store_, evictionQueue_, currentUsage_, stopThread_, mutex_,
                   clock, setCtx, bgPc, bgNow, bgWaitStart, dtorPc, setCount,
                   lastCycleNow, hist>>

\* handleGetGroupEvent
GetGroup(group) ==
    /\ dtorPc = "alive"
    /\ TryLock
    /\ \E order \in Orderings({k \in DOMAIN store_ : store_[k].group = group}) :
          resp' = [op |-> "get_group", group |-> group, now |-> clock,
                   response |-> [i \in DOMAIN order |->
                                   [key |-> order[i], value |-> store_[order[i]].value]]]
    /\ UNCHANGED <<store_, evictionQueue_, currentUsage_, stopThread_, mutex_,
                   clock, setCtx, bgPc, bgNow, bgWaitStart, dtorPc, setCount,
                   lastCycleNow, hist>>

\* handleListEvent
List ==
    /\ dtorPc = "alive"
    /\ TryLock
    /\ \E order \in Orderings(DOMAIN store_) :
          resp' = [op |-> "list", now |-> clock,
                   response |-> [i \in DOMAIN order |->
                                   [key |-> order[i],
                                    value |-> store_[order[i]].value,
                                    group |-> store_[order[i]].group]]]
    /\ UNCHANGED <<store_, evictionQueue_, currentUsage_, stopThread_, mutex_,
                   clock, setCtx, bgPc, bgNow, bgWaitStart, dtorPc, setCount,
                   lastCycleNow, hist>>

\* handleDeleteKeyEvent
DeleteKey(key) ==
    /\ dtorPc = "alive"
    /\ TryLock
    /\ IF key \in DOMAIN store_
       THEN /\ currentUsage_' = currentUsage_ - StoredUsage(store_, key)
            /\ evictionQueue_' = QueueErase(evictionQueue_, {store_[key].evictionIt})
            /\ store_' = StoreErase(store_, {key})
            /\ resp' = [op |-> "delete_key", key |-> key, response |-> 1]
       ELSE /\ resp' = [op |-> "delete_key", key |-> key, response |-> 0]
            /\ UNCHANGED <<store_, evictionQueue_, currentUsage_>>
    /\ hist' = Deleted(hist, {key})
    /\ UNCHANGED <<stopThread_, mutex_, clock, setCtx, bgPc, bgNow,
                   bgWaitStart, dtorPc, setCount, lastCycleNow>>

\* handleDeleteGroupEvent
DeleteGroup(group) ==
    /\ dtorPc = "alive"
    /\ TryLock
    /\ LET ks == {k \in DOMAIN store_ : store_[k].group = group}
       IN /\ currentUsage_' = currentUsage_ - SumUsage(store_, ks)
          /\ evictionQueue_' = QueueErase(evictionQueue_, {store_[k].evictionIt : k \in ks})
          /\ store_' = StoreErase(store_, ks)
          /\ resp' = [op |-> "delete_group", group |-> group,
                      response |-> Cardinality(ks)]
          /\ hist' = Deleted(hist, ks)
    /\ UNCHANGED <<stopThread_, mutex_, clock, setCtx, bgPc, bgNow,
                   bgWaitStart, dtorPc, setCount, lastCycleNow>>

\* the predicate of cv_.wait_for, line 302: [this] { return stopThread_; }
StopUnseen == FALSE
StopPredicate == stopThread_

\* backgroundChecker, lines 301-317: the timed wait returns with the lock
\* held; on stop the thread leaves the loop, otherwise it sweeps expired entries
BgWake ==
    /\ bgPc = "waiting"
    /\ TryLock
    /\ StopPredicate \/ clock >= bgWaitStart + interval
    /\ IF StopPredicate
       THEN /\ bgPc' = "exited"
            /\ UNCHANGED <<store_, evictionQueue_, currentUsage_, mutex_, bgNow, hist>>
       ELSE LET now == clock
                ks == {k \in DOMAIN store_ : Expired(now, store_[k])}
            IN /\ bgNow' = now
               /\ currentUsage_' = currentUsage_ - SumUsage(store_, ks)
               /\ evictionQueue_' = QueueErase(evictionQueue_, {store_[k].evictionIt : k \in ks})
               /\ store_' = StoreErase(store_, ks)
               /\ hist' = Removed(hist, ks, "ttl")
               /\ mutex_' = "bg"
               /\ bgPc' = "evicting"
    /\ resp' = NoResp
    /\ UNCHANGED <<stopThread_, clock, setCtx, bgWaitStart, dtorPc, setCount,
                   lastCycleNow>>

\* backgroundChecker, lines 320-336: one iteration of the size-eviction loop
BgEvict ==
    /\ bgPc = "evicting"
    /\ EvictionNeeded(currentUsage_, evictionQueue_)
    /\ LET evIt == EvictionFront(evictionQueue_)
           key == evIt.key
       IN IF key \in DOMAIN store_
          THEN /\ currentUsage_' = currentUsage_ - StoredUsage(store_, key)
               /\ evictionQueue_' = QueueErase(evictionQueue_, {evIt.id})
               /\ store_' = StoreErase(store_, {key})
               /\ hist' = Removed(hist, {key}, "evict")
          ELSE /\ evictionQueue_' = QueueErase(evictionQueue_, {evIt.id})
               /\ UNCHANGED <<store_, currentUsage_, hist>>
    /\ resp' = NoResp
    /\ UNCHANGED <<stopThread_, mutex_, clock, setCtx, bgPc, bgNow,
                   bgWaitStart, dtorPc, setCount, lastCycleNow>>

\* backgroundChecker, lines 320, 337, 299-302: the loop condition fails, the
\* lock is released and the next timed wait begins
BgRelease ==
    /\ bgPc = "evicting"
    /\ ~EvictionNeeded(currentUsage_, evictionQueue_)
    /\ mutex_' = "free"
    /\ bgPc' = "waiting"
    /\ bgWaitStart' = clock
    /\ lastCycleNow' = bgNow
    /\ resp' = NoResp
    /\ UNCHANGED <<store_, evictionQueue_, currentUsage_, stopThread_, clock,
                   setCtx, bgNow, dtorPc, setCount, hist>>

\* ~RamHandler, lines 102-106: set the stop flag under the lock, notify
DtorWithoutFlag ==
    /\ dtorPc = "alive"
    /\ TryLock
    /\ dtorPc' = "joining"
    /\ resp' = NoResp
    /\ UNCHANGED <<store_, evictionQueue_, currentUsage_, stopThread_, mutex_, clock,
                   setCtx, bgPc, bgNow, bgWaitStart, setCount, lastCycleNow, hist>>
DtorStop ==
    /\ dtorPc = "alive"
    /\ TryLock
    /\ stopThread_' = TRUE
    /\ dtorPc' = "joining"
    /\ resp' = NoResp
    /\ UNCHANGED <<store_, evictionQueue_, currentUsage_, mutex_, clock, setCtx,
                   bgPc, bgNow, bgWaitStart, setCount, lastCycleNow, hist>>

\* ~RamHandler, lines 107-110: bgThread_.join() returns
DtorJoin ==
    /\ dtorPc = "joining"
    /\ bgPc = "exited"
    /\ dtorPc' = "done"
    /\ resp' = NoResp
    /\ UNCHANGED <<store_, evictionQueue_, currentUsage_, stopThread_, mutex_,
                   clock, setCtx, bgPc, bgNow, bgWaitStart, setCount,
                   lastCycleNow, hist>>

Set ==
    \E key \in Keys, value \in Values, group \in Groups, ttl \in TTLs :
        SetBegin(key, value, group, ttl, MsgKeyCapacity(key))

\* the steps that change the store, the clock or a thread's position
Writers ==
    \/ Tick /\ UNCHANGED <<rvars, pvars>>
    \/ Set /\ UNCHANGED <<rvars, pvars>>
    \/ SetEnd /\ UNCHANGED <<rvars, pvars>>
    \/ \E key \in Keys : DeleteKey(key) /\ UNCHANGED <<rvars, pvars>>
    \/ \E group \in Groups : DeleteGroup(group) /\ UNCHANGED <<rvars, pvars>>
    \/ BgWake /\ UNCHANGED <<rvars, pvars>>
    \/ BgEvict /\ UNCHANGED <<rvars, pvars>>
    \/ BgRelease /\ UNCHANGED <<rvars, pvars>>
    \/ DtorStop /\ UNCHANGED <<rvars, pvars>>
    \/ DtorJoin /\ UNCHANGED <<rvars, pvars>>

\* the read handlers: they produce a reply and change nothing else
Readers ==
    \/ \E key \in Keys : GetKey(key) /\ UNCHANGED <<rvars, pvars>>
    \/ \E group \in Groups : GetGroup(group) /\ UNCHANGED <<rvars, pvars>>
    \/ List /\ UNCHANGED <<rvars, pvars>>

Next == Writers \/ Readers

Spec == Init /\ [][Next]_vars

\* The store under a fair scheduler: the clock advances, a thread inside a
\* critical section leaves it, and the worker, whose timed wait keeps
\* expiring, gets the lock again and again.  A read step changes only resp,
\* which no progress property mentions, so the steps are the Writers.
LiveSpec ==
    /\ Init /\ [][Writers]_vars
    /\ WF_vars(Tick)
    /\ WF_vars(SetEnd)
    /\ SF_vars(BgWake)
    /\ WF_vars(BgEvict)
    /\ WF_vars(BgRelease)

\* the memory store with its destructor: bgThread_.join() returns once the
\* worker thread has left backgroundChecker
TeardownSpec == LiveSpec /\ WF_vars(DtorJoin)

(* ------------------------------ the router ----------------------------- *)

\* the ids connections put into their requests
Ids == {"17", "42"}

\* handleClient reads the connection's next request once the previous one
\* was answered
Ready(c) ==
    /\ requests[c].pc \in {"idle", "replied"}
    /\ requests[c].ram \notin {"queued", "running"}
    /\ requests[c].disk \notin {"queued", "running"}
    /\ reqCount < MaxRequests

\* requests once connection c has the request r under way
Begin(c, r) == [requests EXCEPT ![c] = r]

\* std::string::empty() of a request's key, value or group, lines 73, 97,
\* 123, 147 and 173
EmptyNever(s) == FALSE
Empty(s) == s = ""

\* the handler left by an exception
Swallowed(r, what) == [r EXCEPT !.pc = "replied", !.reply = OkReply("")]
Thrown(r, what) == [r EXCEPT !.pc = "replied", !.reply = ErrorReply(what)]

\* StorageHandler::handleSetEvent, lines 72-81 / 85-88: validate, send to one
\* tier, block on its future
RouterSet(c, id, key, value, group, persistent, ttl) ==
    /\ Ready(c)
    /\ LET r == [NoRequest EXCEPT !.op = "set", !.id = id, !.key = key, !.value = value,
                                  !.group = group, !.persistent = persistent,
                                  !.ttl = ttl, !.pc = "waiting"]
           target == SetTarget(persistent)
           err == SendError(handlers_, target, "SetEventMessage")
       IN requests' = Begin(c,
              IF Empty(key) \/ Empty(value) THEN Thrown(r, "Invalid key or value.")
              ELSE IF err # "" THEN Thrown(r, err)
              ELSE IF target = "DiskHandler" THEN [r EXCEPT !.disk = "queued"]
              ELSE [r EXCEPT !.ram = "queued"])
    /\ reqCount' = reqCount + 1
    /\ lastWrite' = [k \in Keys |-> IF k = key THEN NoWrite ELSE lastWrite[k]]
    /\ UNCHANGED <<pvars, handlers_, disk_>>
    /\ RamUntouched

\* handleSetEvent, lines 82 and 89: the id put into the tier's response
\* before it is returned
NoId(msgId, tierId) == ""
ResponseId(msgId, tierId) == msgId

\* handleSetEvent, lines 81-83 / 88-90: the tier's reply is passed on
RouterSetReply(c) ==
    LET r == requests[c]
        target == SetTarget(r.persistent)
    IN /\ r.pc = "waiting" /\ r.op = "set"
       /\ IF target = "DiskHandler" THEN r.disk = "done" ELSE r.ram = "done"
       /\ requests' = [requests EXCEPT
              ![c].pc = "replied",
              ![c].reply = OkReply(IF target = "DiskHandler" THEN r.diskResp ELSE r.ramResp),
              ![c].replyId = ResponseId(r.id, IF target = "DiskHandler" THEN r.diskId
                                              ELSE r.ramId)]
       /\ lastWrite' = [lastWrite EXCEPT ![r.key] =
              [kind |-> "set", value |-> r.value, persistent |-> r.persistent]]
       /\ UNCHANGED <<pvars, handlers_, disk_, reqCount>>
       /\ RamUntouched

\* handleGetKeyEvent, line 103: the memory tier's answer is taken
RamHitNever(response) == FALSE
RamHit(response) == response # ""

\* handleGetKeyEvent, lines 96-102: validate, ask the memory tier
RouterGetKey(c, id, key) ==
    /\ Ready(c)
    /\ LET r == [NoRequest EXCEPT !.op = "get_key", !.id = id, !.key = key,
                                  !.pc = "waiting"]
           err == SendError(handlers_, "RamHandler", "GetKeyEventMessage")
       IN requests' = Begin(c,
              IF Empty(key) THEN Thrown(r, "Invalid key name")
              ELSE IF err # "" THEN Thrown(r, err)
              ELSE [r EXCEPT !.ram = "queued"])
    /\ reqCount' = reqCount + 1
    /\ UNCHANGED <<pvars, handlers_, disk_, lastWrite>>
    /\ RamUntouched

\* handleGetKeyEvent, lines 102-110: the memory tier answered; reply with a
\* non-empty value, otherwise ask the durable tier
RouterGetKeyRam(c) ==
    LET r == requests[c]
        err == SendError(handlers_, "DiskHandler", "GetKeyEventMessage")
    IN /\ r.pc = "waiting" /\ r.op = "get_key"
       /\ r.ram = "done" /\ r.disk = "none"
       /\ requests' = [requests EXCEPT ![c] =
              IF RamHit(r.ramResp)
              THEN [r EXCEPT !.pc = "replied", !.reply = OkReply(r.ramResp),
                             !.replyId = r.ramId, !.seen = lastWrite[r.key]]
              ELSE IF err # "" THEN Thrown(r, err)
              ELSE [r EXCEPT !.disk = "queued"]]
       /\ UNCHANGED <<pvars, handlers_, disk_, reqCount, lastWrite>>
       /\ RamUntouched

\* handleGetKeyEvent, lines 110-116: the durable tier's answer is the reply
RouterGetKeyPromotes(c) ==
    LET r == requests[c]
        id == FreshNode(evictionQueue_)
        entry == [value |-> r.diskResp, group |-> "", insertionTime |-> clock,
                  expirationTime |-> time_point_max, evictionIt |-> id]
    IN /\ r.pc = "waiting" /\ r.op = "get_key"
       /\ r.disk = "done"
       /\ requests' = [requests EXCEPT ![c].pc = "replied",
                                       ![c].reply = OkReply(r.diskResp),
                                       ![c].replyId = r.diskId,
                                       ![c].seen = lastWrite[r.key]]
       /\ store_' = IF r.diskResp # "" THEN StorePut(store_, r.key, entry) ELSE store_
       /\ evictionQueue_' = IF r.diskResp # ""
                            THEN QueueInsert(evictionQueue_,
                                             [time |-> clock, key |-> r.key, id |-> id])
                            ELSE evictionQueue_
       /\ currentUsage_' = IF r.diskResp # ""
                           THEN currentUsage_ + calculateExactEntryUsage(capacity(r.key), entry)
                           ELSE currentUsage_
       /\ resp' = [op |-> "none"]
       /\ UNCHANGED <<stopThread_, mutex_, clock, setCtx, bgPc, bgNow, bgWaitStart,
                      dtorPc, setCount, lastCycleNow, hist>>
       /\ UNCHANGED <<pvars, handlers_, disk_, reqCount, lastWrite>>
RouterGetKeyDisk(c) ==
    LET r == requests[c]
    IN /\ r.pc = "waiting" /\ r.op = "get_key"
       /\ r.disk = "done"
       /\ requests' = [requests EXCEPT ![c].pc = "replied",
                                       ![c].reply = OkReply(r.diskResp),
                                       ![c].replyId = r.diskId,
                                       ![c].seen = lastWrite[r.key]]
       /\ UNCHANGED <<pvars, handlers_, disk_, reqCount, lastWrite>>
       /\ RamUntouched

\* the two sends of a handler that asks both tiers: the first tier's task is
\* already enqueued when the second send throws
SendBoth(r, first, second, type) ==
    LET err1 == SendError(handlers_, first, type)
        err2 == SendError(handlers_, second, type)
        tier(id, q) == IF id = "RamHandler" THEN [q EXCEPT !.ram = "queued"]
                       ELSE [q EXCEPT !.disk = "queued"]
    IN IF err1 # "" THEN Thrown(r, err1)
       ELSE IF err2 # "" THEN Thrown(tier(first, r), err2)
       ELSE tier(second, tier(first, r))

\* handleGetGroupEvent, lines 122-128
RouterGetGroup(c, id, group) ==
    /\ Ready(c)
    /\ LET r == [NoRequest EXCEPT !.op = "get_group", !.id = id, !.group = group,
                                  !.pc = "waiting"]
       IN requests' = Begin(c,
              IF Empty(group) THEN Thrown(r, "Invalid group name")
              ELSE SendBoth(r, "RamHandler", "DiskHandler", "GetGroupEventMessage"))
    /\ reqCount' = reqCount + 1
    /\ UNCHANGED <<pvars, handlers_, disk_, lastWrite>>
    /\ RamUntouched

\* lines 136-137 and 208-209: the memory tier's entries are inserted at the
\* begin of the durable tier's entries
MergeDiskFirst(ramResponse, diskResponse) == diskResponse \o ramResponse
Merge(ramResponse, diskResponse) == ramResponse \o diskResponse

\* handleGetGroupEvent, lines 130-141, and handleListEvent, lines 201-212:
\* both futures are ready, the merged entries are the reply
RouterMergeReply(c) ==
    LET r == requests[c]
    IN /\ r.pc = "waiting" /\ r.op \in {"get_group", "list"}
       /\ r.ram = "done" /\ r.disk = "done"
       /\ requests' = [requests EXCEPT ![c].pc = "replied",
                                       ![c].reply = OkReply(Merge(r.ramResp, r.diskResp)),
                                       ![c].replyId = r.id]
       /\ UNCHANGED <<pvars, handlers_, disk_, reqCount, lastWrite>>
       /\ RamUntouched

\* handleDeleteKeyEvent, lines 146-152
RouterDeleteKey(c, id, key) ==
    /\ Ready(c)
    /\ LET r == [NoRequest EXCEPT !.op = "delete_key", !.id = id, !.key = key,
                                  !.pc = "waiting"]
       IN requests' = Begin(c,
              IF Empty(key) THEN Thrown(r, "Invalid key name")
              ELSE SendBoth(r, "RamHandler", "DiskHandler", "DeleteKeyEventMessage"))
    /\ reqCount' = reqCount + 1
    /\ lastWrite' = [k \in Keys |-> IF k = key THEN NoWrite ELSE lastWrite[k]]
    /\ UNCHANGED <<pvars, handlers_, disk_>>
    /\ RamUntouched

\* lines 166 and 192: resp.response = ramResp.response + diskResp.response
OnlyIfBoth(ramResponse, diskResponse) ==
    IF ramResponse > 0 /\ diskResponse > 0 THEN 1 ELSE 0
Combined(ramResponse, diskResponse) == ramResponse + diskResponse

\* handleDeleteKeyEvent, lines 154-167
RouterDeleteKeyReply(c) ==
    LET r == requests[c]
    IN /\ r.pc = "waiting" /\ r.op = "delete_key"
       /\ r.ram = "done" /\ r.disk = "done"
       /\ requests' = [requests EXCEPT ![c].pc = "replied",
                                       ![c].reply = OkReply(Combined(r.ramResp, r.diskResp)),
                                       ![c].replyId = r.id]
       /\ lastWrite' = [lastWrite EXCEPT ![r.key] =
              [kind |-> "delete", ram |-> r.ramResp, disk |-> r.diskResp]]
       /\ UNCHANGED <<pvars, handlers_, disk_, reqCount>>
       /\ RamUntouched

\* handleDeleteGroupEvent, lines 172-178
RouterDeleteGroup(c, id, group) ==
    /\ Ready(c)
    /\ LET r == [NoRequest EXCEPT !.op = "delete_group", !.id = id, !.group = group,
                                  !.pc = "waiting"]
       IN requests' = Begin(c,
              IF Empty(group) THEN Thrown(r, "Invalid group name")
              ELSE SendBoth(r, "RamHandler", "DiskHandler", "DeleteGroupEventMessage"))
    /\ reqCount' = reqCount + 1
    /\ lastWrite' = [k \in Keys |-> NoWrite]
    /\ UNCHANGED <<pvars, handlers_, disk_>>
    /\ RamUntouched

\* handleDeleteGroupEvent, lines 180-193
RouterDeleteGroupReply(c) ==
    LET r == requests[c]
    IN /\ r.pc = "waiting" /\ r.op = "delete_group"
       /\ r.ram = "done" /\ r.disk = "done"
       /\ requests' = [requests EXCEPT ![c].pc = "replied",
                                       ![c].reply = OkReply(Combined(r.ramResp, r.diskResp)),
                                       ![c].replyId = r.id]
       /\ UNCHANGED <<pvars, handlers_, disk_, reqCount, lastWrite>>
       /\ RamUntouched

\* EventBusResult::get on the durable tier's future rethrows the exception
\* that left the tier's handler; no router handler catches it.  A handler
\* that asked both tiers waits for the memory tier's future first
RouterTierFailed(c) ==
    LET r == requests[c]
    IN /\ r.pc = "waiting"
       /\ r.disk = "failed" /\ r.ram \in {"none", "done"}
       /\ requests' = [requests EXCEPT ![c] = Thrown(r, r.diskResp)]
       /\ UNCHANGED <<pvars, handlers_, disk_, reqCount, lastWrite>>
       /\ RamUntouched

\* handleListEvent, lines 198-199: the durable tier is sent to first
RouterList(c, id) ==
    /\ Ready(c)
    /\ LET r == [NoRequest EXCEPT !.op = "list", !.id = id, !.pc = "waiting"]
       IN requests' = Begin(c, SendBoth(r, "DiskHandler", "RamHandler", "ListEventMessage"))
    /\ reqCount' = reqCount + 1
    /\ UNCHANGED <<pvars, handlers_, disk_, lastWrite>>
    /\ RamUntouched

(* ------------------- the tiers' handlers on the pool -------------------- *)

\* the memory tier's future of connection c becomes ready with `response`;
\* every RamHandler handler copies msg.id into its response
RamDone(c, response) ==
    /\ requests' = [requests EXCEPT ![c].ram = "done", ![c].ramResp = response,
                                    ![c].ramId = requests[c].id]
    /\ UNCHANGED <<pvars, handlers_, disk_, reqCount, lastWrite>>

\* a pool thread runs RamHandler::handleSetEvent on the router's message
RamSetBegin(c) ==
    LET r == requests[c]
    IN /\ r.op = "set" /\ r.ram = "queued"
       /\ SetBegin(r.key, r.value, r.group, r.ttl, MsgKeyCapacity(r.key))
       /\ requests' = [requests EXCEPT ![c].ram = "running"]
       /\ UNCHANGED <<pvars, handlers_, disk_, reqCount, lastWrite>>

RamSetEnd(c) ==
    /\ requests[c].ram = "running"
    /\ SetEnd
    /\ RamDone(c, resp'.response)

\* RamHandler::handleGetKeyEvent for the router
RamGetKey(c) ==
    /\ requests[c].op = "get_key" /\ requests[c].ram = "queued"
    /\ GetKey(requests[c].key)
    /\ RamDone(c, resp'.response)

\* RamHandler::handleGetGroupEvent for the router
RamGetGroup(c) ==
    /\ requests[c].op = "get_group" /\ requests[c].ram = "queued"
    /\ GetGroup(requests[c].group)
    /\ RamDone(c, resp'.response)

\* RamHandler::handleDeleteKeyEvent for the router
RamDeleteKey(c) ==
    /\ requests[c].op = "delete_key" /\ requests[c].ram = "queued"
    /\ DeleteKey(requests[c].key)
    /\ RamDone(c, resp'.response)

\* RamHandler::handleDeleteGroupEvent for the router
RamDeleteGroup(c) ==
    /\ requests[c].op = "delete_group" /\ requests[c].ram = "queued"
    /\ DeleteGroup(requests[c].group)
    /\ RamDone(c, resp'.response)

\* the durable tier's future of connection c becomes ready with `response`;
\* every DiskHandler handler copies msg.id into its response
DiskDone(c, response) ==
    /\ requests' = [requests EXCEPT ![c].disk = "done", ![c].diskResp = response,
                                    ![c].diskId = requests[c].id]
    /\ UNCHANGED <<pvars, handlers_, reqCount, lastWrite>>
    /\ RamUntouched

\* rows of the table a WHERE group_name = ? selects
GroupRowsNone(rows, group) == {}
GroupRows(rows, group) == {k \in DOMAIN rows : rows[k].group = group}

\* DiskHandler::handleSetEvent: INSERT OR REPLACE INTO store, committed
DiskSet(c) ==
    LET r == requests[c]
    IN /\ r.op = "set" /\ r.disk = "queued"
       /\ disk_' = StorePut(disk_, r.key, [value |-> r.value, group |-> r.group])
       /\ DiskDone(c, TRUE)

\* DiskHandler::handleGetKeyEvent: SELECT value FROM store WHERE key = ?
DiskGetKey(c) ==
    LET r == requests[c]
    IN /\ r.op = "get_key" /\ r.disk = "queued"
       /\ UNCHANGED disk_
       /\ DiskDone(c, IF r.key \in DOMAIN disk_ THEN disk_[r.key].value ELSE "")

\* DiskHandler::handleGetGroupEvent: the rows of the group, in the order
\* SQLite steps through them
DiskGetGroup(c) ==
    LET r == requests[c]
    IN /\ r.op = "get_group" /\ r.disk = "queued"
       /\ UNCHANGED disk_
       /\ \E order \in Orderings(GroupRows(disk_, r.group)) :
             DiskDone(c, [i \in DOMAIN order |->
                            [key |-> order[i], value |-> disk_[order[i]].value]])

\* DiskHandler::handleDeleteKeyEvent: 1 when sqlite3_changes() > 0
DiskDeleteKey(c) ==
    LET r == requests[c]
    IN /\ r.op = "delete_key" /\ r.disk = "queued"
       /\ disk_' = StoreErase(disk_, {r.key})
       /\ DiskDone(c, IF r.key \in DOMAIN disk_ THEN 1 ELSE 0)

\* DiskHandler::handleDeleteGroupEvent: sqlite3_changes() rows removed
DiskDeleteGroup(c) ==
    LET r == requests[c]
    IN /\ r.op = "delete_group" /\ r.disk = "queued"
       /\ disk_' = StoreErase(disk_, GroupRows(disk_, r.group))
       /\ DiskDone(c, Cardinality(GroupRows(disk_, r.group)))

\* event tags a connection may send that handleClient has no branch for; a
\* request without an "event" member reads as the empty tag
UnknownTags == {"PING", ""}

\* handleClient, lines 216-223: the reply to a tag no branch matches
UnknownIgnored == OkReply("")
UnknownReply == ErrorReply("Unknown event type")

\* handleClient's else branch: the error is written to the socket, nothing is
\* sent on the bus, and the read loop goes on with the next request
ClientUnknown(c, id, tag) ==
    /\ Ready(c)
    /\ requests' = Begin(c, [NoRequest EXCEPT !.op = "unknown", !.id = id, !.key = tag,
                                              !.pc = "replied", !.reply = UnknownReply])
    /\ reqCount' = reqCount + 1
    /\ UNCHANGED <<pvars, handlers_, disk_, lastWrite>>
    /\ RamUntouched

\* what() of the std::runtime_error a DiskHandler handler throws when
\* sqlite3_step does not report SQLITE_DONE or SQLITE_ROW
StepError(op) ==
    CASE op = "set" -> "SQLite step error in SET."
      [] op = "get_key" -> "SQLite step error in GET KEY."
      [] op = "get_group" -> "SQLite step error in GET GROUP."
      [] op = "delete_key" -> "SQLite step error in DELETE KEY."
      [] OTHER -> "SQLite step error in DELETE GROUP."

\* SQLite reports an error to a DiskHandler handler: the statement changed
\* nothing (a set is rolled back), the exception is stored in the future
DiskFails(c) ==
    LET r == requests[c]
    IN /\ r.disk = "queued"
       /\ UNCHANGED disk_
       /\ requests' = [requests EXCEPT ![c].disk = "failed",
                                       ![c].diskResp = StepError(r.op)]
       /\ UNCHANGED <<pvars, handlers_, reqCount, lastWrite>>
       /\ RamUntouched

\* what a connection may send as key, value and group: handleClient accepts
\* any JSON string, the empty one included
RequestKeys == Keys \cup {""}
RequestValues == Values \cup {""}
RequestGroups == Groups \cup {""}

\* requests arriving over the connections, the router's handlers and the
\* tier handlers they wait for, within one sweep interval of the memory
\* tier.  Entries set through the router here carry ttl 0.
RouterNext ==
    \E c \in Clients, id \in Ids :
        \/ \E key \in RequestKeys, value \in RequestValues, group \in Groups,
              persistent \in BOOLEAN :
              RouterSet(c, id, key, value, group, persistent, 0)
        \/ RouterSetReply(c)
        \/ \E key \in RequestKeys : RouterGetKey(c, id, key)
        \/ RouterGetKeyRam(c)
        \/ RouterGetKeyDisk(c)
        \/ \E group \in RequestGroups : RouterGetGroup(c, id, group)
        \/ RouterMergeReply(c)
        \/ \E key \in RequestKeys : RouterDeleteKey(c, id, key)
        \/ RouterDeleteKeyReply(c)
        \/ \E group \in RequestGroups : RouterDeleteGroup(c, id, group)
        \/ RouterDeleteGroupReply(c)
        \/ RouterList(c, id)
        \/ \E tag \in UnknownTags : ClientUnknown(c, id, tag)
        \/ RouterTierFailed(c)
        \/ RamSetBegin(c)
        \/ RamSetEnd(c)
        \/ RamGetKey(c)
        \/ RamGetGroup(c)
        \/ RamDeleteKey(c)
        \/ RamDeleteGroup(c)
        \/ DiskSet(c)
        \/ DiskGetKey(c)
        \/ DiskGetGroup(c)
        \/ DiskDeleteKey(c)
        \/ DiskDeleteGroup(c)
        \/ DiskFails(c)

RouterSpec == Init /\ [][RouterNext]_<<vars, rvars>>

(* ---------------------------- the thread pool --------------------------- *)

\* connections that have a request for the router at the same time: the
\* accept loop starts a thread for every connection, here one per pool thread
PoolClients == numThreads

\* workers waiting on the condition variable for a task
IdleWorkers == numThreads - blocked

\* EventBus::send to the router from a connection's thread: the handler task
\* is enqueued, the connection waits for its future
PoolSend ==
    /\ sent < PoolClients
    /\ tasks' = Append(tasks, "router")
    /\ sent' = sent + 1
    /\ UNCHANGED <<blocked, bus, handled>>
    /\ UNCHANGED <<vars, rvars>>

\* a worker takes a router task: the handler sends the tier's task into the
\* same queue and blocks in get() on its future
WorkerRouter ==
    /\ IdleWorkers > 0
    /\ tasks # <<>> /\ Head(tasks) = "router"
    /\ tasks' = Append(Tail(tasks), "tier")
    /\ blocked' = blocked + 1
    /\ UNCHANGED <<sent, bus, handled>>
    /\ UNCHANGED <<vars, rvars>>

\* a worker takes a tier task and runs the tier's handler; the future becomes
\* ready, the router handler waiting on it returns and its worker is free again
WorkerTier ==
    /\ IdleWorkers > 0
    /\ tasks # <<>> /\ Head(tasks) = "tier"
    /\ tasks' = Tail(tasks)
    /\ blocked' = blocked - 1
    /\ UNCHANGED <<sent, bus, handled>>
    /\ UNCHANGED <<vars, rvars>>

PoolNext == PoolSend \/ WorkerRouter \/ WorkerTier

PoolSpec == Init /\ [][PoolNext]_pvars

(* ------------------- subscribing and unsubscribing ---------------------- *)

\* a caller of the bus other than the three storage components: the handler
\* ids and message types it uses, and the callbacks it registers
BusIds == {"Broadcast", "DiskHandler"}
BusTypes == {"SetEventMessage", "ListEventMessage"}
Callbacks == {"f", "g"}

\* a call on the bus leaves everything but handlers_, the queued tasks and its
\* outcome alone
BusOnly ==
    /\ UNCHANGED <<disk_, requests, reqCount, lastWrite, blocked, sent, handled>>
    /\ RamUntouched

\* handlersMap.erase(typeIdx), line 236, destroys the node of (id, type): the
\* iterator itFunc a queued task of send captured for it dangles from then on
Erased(queue, id, type) ==
    [i \in 1..Len(queue) |->
        IF queue[i].id = id /\ queue[i].type = type
        THEN [queue[i] EXCEPT !.entry = "erased"]
        ELSE queue[i]]

\* EventBus::subscribe, lines 155-160: handler.find(typeid(TMsg)) != handler.end()
NeverSubscribed(map, id, type) == FALSE
AlreadySubscribed(map, id, type) == id \in DOMAIN map /\ type \in DOMAIN map[id]

\* the handler map of an id, empty when operator[] has just created it
HandlersOf(map, id) == IF id \in DOMAIN map THEN map[id] ELSE [t \in {} |-> ""]

\* EventBus::subscribe<TMsg, RetMsg>(id, callback)
Subscribe(id, type, callback) ==
    /\ IF AlreadySubscribed(handlers_, id, type)
       THEN /\ bus' = [op |-> "subscribe", id |-> id, type |-> type,
                       callback |-> callback, result |-> FALSE,
                       error |-> "Event handler already exists"]
            /\ UNCHANGED handlers_
       ELSE /\ handlers_' = StorePut(handlers_, id,
                                StorePut(HandlersOf(handlers_, id), type, callback))
            /\ bus' = [op |-> "subscribe", id |-> id, type |-> type,
                       callback |-> callback, result |-> TRUE, error |-> ""]
    /\ UNCHANGED tasks
    /\ BusOnly

\* EventBus::unsubscribe<TMsg>(id).  When the erased type was the last one
\* of the id, handlers_.map.erase(it) destroys the inner map handlersMap
\* refers to, and the handlersMap.size() that follows reads a destroyed
\* object: the comparison with oldSize can come out either way
Unsubscribe(id, type) ==
    /\ IF id \notin DOMAIN handlers_
       THEN /\ bus' = [op |-> "unsubscribe", id |-> id, type |-> type, result |-> FALSE]
            /\ UNCHANGED handlers_
       ELSE LET oldSize == Cardinality(DOMAIN handlers_[id])
                handlersMap == StoreErase(handlers_[id], {type})
            IN IF DOMAIN handlersMap = {}
               THEN /\ handlers_' = StoreErase(handlers_, {id})
                    /\ \E removed \in BOOLEAN :
                          bus' = [op |-> "unsubscribe", id |-> id, type |-> type,
                                  result |-> removed]
               ELSE /\ handlers_' = [handlers_ EXCEPT ![id] = handlersMap]
                    /\ bus' = [op |-> "unsubscribe", id |-> id, type |-> type,
                               result |-> oldSize # Cardinality(DOMAIN handlersMap)]
    /\ tasks' = Erased(tasks, id, type)
    /\ BusOnly

\* EventBus::send(id, msg) followed by get() or wait() on its result, from
\* the caller's thread: the callback found under (id, type) is run by a pool
\* thread, or send throws
SendAndGet(id, type) ==
    /\ bus' = [op |-> "send", id |-> id, type |-> type,
               error |-> SendError(handlers_, id, type),
               reached |-> IF SendError(handlers_, id, type) = ""
                           THEN handlers_[id][type] ELSE "none"]
    /\ UNCHANGED <<handlers_, tasks>>
    /\ BusOnly

BusNext ==
    \E id \in BusIds, type \in BusTypes :
        \/ \E callback \in Callbacks : Subscribe(id, type, callback)
        \/ Unsubscribe(id, type)
        \/ SendAndGet(id, type)

BusSpec == Init /\ [][BusNext]_<<handlers_, bus>>

(* ------------------- sending without waiting, running ------------------- *)

\* EventBus::send(id, msg), lines 185-217, from a caller's thread.  The lookup
\* throws, or the task [itFunc, &msg] is enqueued: it holds the iterator to the
\* node of (id, type) and a reference to the caller's message.  A caller that
\* waits calls get() or wait() on the result and keeps its message until
\* then; one that does not drops the result, whose destructor does not block
Send(id, type, waits) ==
    /\ sent < MaxSends
    /\ IF SendError(handlers_, id, type) # ""
       THEN /\ bus' = [op |-> "send", id |-> id, type |-> type,
                       error |-> SendError(handlers_, id, type), reached |-> "none"]
            /\ UNCHANGED <<tasks, sent>>
       ELSE /\ tasks' = Append(tasks, [id |-> id, type |-> type,
                                       callback |-> handlers_[id][type],
                                       entry |-> "live", msg |-> "alive",
                                       waits |-> waits])
            /\ sent' = sent + 1
            /\ bus' = [op |-> "send", id |-> id, type |-> type,
                       error |-> "", reached |-> "none"]
    /\ UNCHANGED <<handlers_, disk_, requests, reqCount, lastWrite, blocked, handled>>
    /\ RamUntouched

\* a caller that did not wait leaves the scope of its message while the task
\* is still queued (test_eventbus.cpp 162-165: `TestEvent event(i)` ends with
\* each iteration of the loop)
SenderLeaves(i) ==
    /\ i \in 1..Len(tasks)
    /\ ~tasks[i].waits /\ tasks[i].msg = "alive"
    /\ tasks' = [tasks EXCEPT ![i].msg = "destroyed"]
    /\ bus' = [op |-> "leave", id |-> tasks[i].id, type |-> tasks[i].type]
    /\ UNCHANGED <<handlers_, disk_, requests, reqCount, lastWrite, blocked, sent, handled>>
    /\ RamUntouched

\* what itFunc->second(msg) can call.  Through a live node with a live
\* message it is the callback subscribed when send looked it up.  Through an
\* erased node or with a destroyed message the call is undefined: the freed
\* memory may still hold the old callback and message, may hold the callback
\* subscribed since, or no callable at all (std::bad_function_call, or the
\* dynamic_cast of line 163 fails and the wrapper throws)
Callable(map, task) ==
    IF task.entry = "live" /\ task.msg = "alive"
    THEN {task.callback}
    ELSE {task.callback, "none"}
         \cup (IF SendError(map, task.id, task.type) = ""
               THEN {map[task.id][task.type]} ELSE {})

\* a pool thread, lines 38-49: pop the front task and run it
RunTask ==
    /\ tasks # <<>>
    /\ LET task == Head(tasks)
       IN \E called \in Callable(handlers_, task) :
             /\ bus' = [op |-> "run", id |-> task.id, type |-> task.type,
                        callback |-> task.callback, entry |-> task.entry,
                        msg |-> task.msg, waits |-> task.waits,
                        called |-> called,
                        result |-> IF task.waits THEN called ELSE "none"]
             /\ handled' = IF called = "none" THEN handled ELSE handled + 1
    /\ tasks' = Tail(tasks)
    /\ UNCHANGED <<handlers_, disk_, requests, reqCount, lastWrite, blocked, sent>>
    /\ RamUntouched

\* callers as in test_eventbus.cpp: they subscribe and unsubscribe under
\* HandlerID::Broadcast and send there and to the durable tier
DispatchNext ==
    \/ \E type \in BusTypes, callback \in Callbacks : Subscribe("Broadcast", type, callback)
    \/ \E type \in BusTypes : Unsubscribe("Broadcast", type)
    \/ \E id \in BusIds, type \in BusTypes, waits \in BOOLEAN : Send(id, type, waits)
    \/ \E i \in 1..MaxSends : SenderLeaves(i)
    \/ RunTask

DispatchSpec == Init /\ [][DispatchNext]_<<handlers_, pvars>>

(* ----------------------------- properties ------------------------------ *)

\* the nodes of the ordering index that carry key k
NodesOf(k) == {i \in 1..Len(evictionQueue_) : evictionQueue_[i].key = k}

\* C1: whenever no operation is inside the store (the lock is free), the
\* running usage counter equals the sum of the exact-usage function over the
\* entries in the map.
UsageEqualsSum ==
    mutex_ = "free" => currentUsage_ = SumUsage(store_, DOMAIN store_)

\* C2: whenever the lock is free, every key of the map has exactly one node
\* in the ordering index, carrying the key, the entry's insertion time and
\* the entry's handle, and every node names a key of the map.
IndexBijection ==
    mutex_ = "free" =>
        /\ \A k \in DOMAIN store_ :
              /\ Cardinality(NodesOf(k)) = 1
              /\ \A i \in NodesOf(k) :
                    evictionQueue_[i] = [time |-> store_[k].insertionTime,
                                         key |-> k,
                                         id |-> store_[k].evictionIt]
        /\ \A i \in 1..Len(evictionQueue_) : evictionQueue_[i].key \in DOMAIN store_

IndexBijectionWitness ==
    /\ mutex_ = "free"
    /\ Len(evictionQueue_) = 2
    /\ setCount >= 3
    /\ lastCycleNow >= 0

\* C3: get_key never returns the value of an entry whose expiration time is
\* at or before the time of the read; it returns the empty string for it.
GetKeyHidesExpired ==
    (/\ resp.op = "get_key"
     /\ resp.key \in DOMAIN store_
     /\ resp.now >= store_[resp.key].expirationTime)
    => resp.response = ""

\* C4: get_group and list never include an entry whose expiration time is at
\* or before the time of the read.
GroupAndListHideExpired ==
    resp.op \in {"get_group", "list"} =>
        \A i \in DOMAIN resp.response :
            LET k == resp.response[i].key
            IN ~(k \in DOMAIN store_ /\ resp.now >= store_[k].expirationTime)

\* C5: once a worker cycle that read the clock at or after an entry's
\* expiration time has completed, the entry is not in the map, and a get_key
\* for its key returns the empty string unless the key was set again.
ExpiredGoneAfterCycle ==
    /\ \A k \in DOMAIN store_ : store_[k].expirationTime > lastCycleNow
    /\ (/\ resp.op = "get_key"
        /\ hist[resp.key] # NoHist
        /\ hist[resp.key].expirationTime <= lastCycleNow)
       => resp.response = ""

ExpiredGoneWitness ==
    /\ resp.op = "get_key"
    /\ hist[resp.key] # NoHist
    /\ hist[resp.key].removedBy = "ttl"
    /\ hist[resp.key].expirationTime <= lastCycleNow
    /\ resp.response = ""

\* C6: a worker cycle ends only with usage <= max_bytes or an empty ordering
\* index, and whenever usage exceeds max_bytes the worker, as long as it is
\* scheduled and not stopped, eventually brings usage to max_bytes or below
\* or empties the store.
SizeBoundRestored ==
    /\ [][(bgPc = "evicting" /\ bgPc' = "waiting")
            => (currentUsage_' <= maxSizeBytes_ \/ evictionQueue_' = <<>>)]_vars
    /\ (currentUsage_ > maxSizeBytes_)
          ~> (currentUsage_ <= maxSizeBytes_ \/ DOMAIN store_ = {} \/ stopThread_)

SizeBoundWitness ==
    /\ bgPc = "waiting"
    /\ mutex_ = "free"
    /\ currentUsage_ <= maxSizeBytes_
    /\ \E k \in Keys : hist[k] # NoHist /\ hist[k].removedBy = "evict"

\* C7: when the worker evicts an entry by size, no entry that stays in the
\* store was inserted strictly earlier than the evicted one.
EvictsOldestFirst ==
    [][(bgPc = "evicting" /\ bgPc' = "evicting")
        => \A k \in (DOMAIN store_) \ (DOMAIN store_') :
             \A j \in DOMAIN store_' :
                store_[k].insertionTime <= store_'[j].insertionTime]_vars

EvictsOldestWitness ==
    /\ bgPc = "evicting"
    /\ \E k \in Keys : hist[k] # NoHist /\ hist[k].removedBy = "evict"
    /\ \E j \in DOMAIN store_ :
          \E i \in 1..Len(evictionQueue_) : evictionQueue_[i].key = j

\* C8 as stated: a get_key issued after a completed set of the key, before
\* the entry's expiration and with no delete or other set of the key in
\* between, returns the value that was set, whatever the worker did.
SetThenGetReturnsValue ==
    (/\ resp.op = "get_key"
     /\ hist[resp.key] # NoHist
     /\ resp.now < hist[resp.key].expirationTime)
    => resp.response = hist[resp.key].value

\* C8 amended: the same, unless the worker evicted the entry by size in
\* between, in which case get_key returns the empty string.
SetThenGetUnlessEvicted ==
    (/\ resp.op = "get_key"
     /\ hist[resp.key] # NoHist
     /\ resp.now < hist[resp.key].expirationTime)
    => resp.response = IF hist[resp.key].removedBy = "evict"
                       THEN "" ELSE hist[resp.key].value

SetThenGetWitness ==
    /\ resp.op = "get_key"
    /\ hist[resp.key] # NoHist
    /\ hist[resp.key].removedBy = "none"
    /\ resp.now < hist[resp.key].expirationTime
    /\ resp.response = hist[resp.key].value
    /\ \E j \in Keys \ {resp.key} : hist[j] # NoHist /\ hist[j].removedBy = "evict"

\* C9: after a set on a key that was present, the map holds the key with the
\* new value and group and the time of this set as insertion time, the
\* ordering index holds exactly one node for the key, at that time and under
\* the entry's handle, and that node comes after every other node.
ReplaceMovesEntry ==
    (resp.op = "set" /\ resp.replaced) =>
        /\ resp.key \in DOMAIN store_
        /\ store_[resp.key].value = resp.value
        /\ store_[resp.key].group = resp.group
        /\ store_[resp.key].insertionTime = resp.now
        /\ NodesOf(resp.key) = {Len(evictionQueue_)}
        /\ evictionQueue_[Len(evictionQueue_)] =
              [time |-> resp.now, key |-> resp.key,
               id |-> store_[resp.key].evictionIt]

ReplaceMovesWitness ==
    /\ resp.op = "set"
    /\ resp.replaced
    /\ Len(evictionQueue_) = 2
    /\ evictionQueue_[1].time = evictionQueue_[2].time
    /\ evictionQueue_[1].key # resp.key

\* C10: the lock is held by exactly the operation that is inside its
\* critical section, the worker and a set are never inside together, and
\* while a set is between removing the old entry and storing the new one no
\* other operation has read or changed the store.
SetIsAtomic ==
    /\ (mutex_ = "set") = (setCtx # NoSet)
    /\ (mutex_ = "bg") = (bgPc = "evicting")
    /\ setCtx # NoSet => resp = NoResp
    /\ setCtx # NoSet =>
          /\ setCtx.key \notin DOMAIN store_
          /\ Cardinality(NodesOf(setCtx.key)) = 1

SetIsAtomicWitness ==
    /\ setCtx # NoSet
    /\ setCtx.replaced
    /\ bgPc = "waiting"
    /\ clock >= bgWaitStart + interval
    /\ DOMAIN store_ # {}

\* C11: the pool never reaches a state where every worker thread is blocked in
\* a router handler waiting for a tier operation that is still in the queue
\* (from which no request in flight can complete any more)
NoPoolExhaustion ==
    ~(blocked = numThreads /\ \E i \in 1..Len(tasks) : tasks[i] = "tier")

\* the steps of a router request of connection c that is under way
Serving(c, op) == requests[c].op = op /\ requests[c].pc = "waiting"

\* connection c holds the router's successful reply to a request `op`
Replied(c, op) ==
    requests[c].op = op /\ requests[c].pc = "replied" /\ requests[c].reply.ok

GetKeyMemoryFirst ==
    \A c \in Clients :
        LET r == requests[c]
        IN r.op = "get_key" =>
              /\ r.disk # "none" => r.ram = "done" /\ r.ramResp = ""
              /\ Replied(c, "get_key") =>
                    IF r.ramResp # ""
                    THEN r.disk = "none" /\ r.reply.response = r.ramResp
                    ELSE r.disk = "done" /\ r.reply.response = r.diskResp

\* the memory tier missed and the durable tier's value was returned
GetKeyMemoryFirstWitness ==
    \E c \in Clients :
        /\ Replied(c, "get_key")
        /\ requests[c].ramResp = ""
        /\ requests[c].reply.response # ""

\* C14: a router get_key(k) that follows a completed router set of (k, v)
\* with persistent = true, with no set or delete of k in between, returns v
PersistentSetThenGet ==
    \A c \in Clients :
        LET r == requests[c]
        IN Replied(c, "get_key") /\ r.seen.kind = "set" /\ r.seen.persistent
              => r.reply.response = r.seen.value

\* C15: a router get_key(k) that follows a completed router delete_key(k),
\* with no set of k in between, returns the empty string
DeleteThenGetEmpty ==
    \A c \in Clients :
        LET r == requests[c]
        IN Replied(c, "get_key") /\ r.seen.kind = "delete"
              => r.reply.response = ""

\* the get follows a delete that removed the key from the durable tier
DeleteThenGetWitness ==
    \E c \in Clients :
        /\ Replied(c, "get_key")
        /\ requests[c].seen.kind = "delete"
        /\ requests[c].seen.disk = 1
        /\ requests[c].reply.response = ""

DeleteKeyBothIsOne ==
    \A c \in Clients :
        LET r == requests[c]
        IN Replied(c, "delete_key") /\ r.ramResp = 1 /\ r.diskResp = 1
              => r.reply.response = 1

\* C18: router delete_group runs the delete in both tiers and replies with
\* the sum of the two counts; when it is answered neither tier holds an entry
\* of the group
DeleteGroupSum ==
    \A c \in Clients :
        Replied(c, "delete_group") =>
            LET r == requests[c]
            IN /\ r.ram = "done" /\ r.disk = "done"
               /\ r.reply.response = r.ramResp + r.diskResp
               /\ \A k \in DOMAIN store_ : store_[k].group # r.group
               /\ \A k \in DOMAIN disk_ : disk_[k].group # r.group

\* both tiers removed entries of the group
DeleteGroupSumWitness ==
    \E c \in Clients :
        /\ Replied(c, "delete_group")
        /\ requests[c].ramResp >= 1
        /\ requests[c].diskResp >= 1

\* C19: router get_group replies with the memory tier's entries followed by
\* the durable tier's entries, nothing added, nothing dropped, a key of both
\* tiers twice
GetGroupConcat ==
    \A c \in Clients :
        Replied(c, "get_group") =>
            LET r == requests[c]
            IN /\ r.ram = "done" /\ r.disk = "done"
               /\ r.reply.response = r.ramResp \o r.diskResp

\* a key held by both tiers is in the reply twice
GetGroupConcatWitness ==
    \E c \in Clients :
        /\ Replied(c, "get_group")
        /\ \E i, j \in DOMAIN requests[c].reply.response :
              /\ i < j
              /\ requests[c].reply.response[i].key = requests[c].reply.response[j].key

\* C20: with the memory store and the durable store registered, a router
\* list request is answered with the memory tier's entries followed by the
\* durable tier's entries
ListSucceeds ==
    \A c \in Clients :
        LET r == requests[c]
        IN r.op = "list" /\ r.pc = "replied" =>
              /\ r.reply.ok
              /\ r.reply.response = r.ramResp \o r.diskResp

\* a request with an empty key, value or group where the router demands one
Refused(r) ==
    \/ r.op = "set" /\ (r.key = "" \/ r.value = "")
    \/ r.op \in {"get_key", "delete_key"} /\ r.key = ""
    \/ r.op \in {"get_group", "delete_group"} /\ r.group = ""

\* C21: a set with an empty key or value, a get_key or delete_key with an
\* empty key, a get_group or delete_group with an empty group ends in an
\* error reply, no task is sent to either tier, and the step that takes the
\* request leaves the memory store and the durable store as they were
EmptyRejected ==
    /\ [](\A c \in Clients :
            Refused(requests[c]) =>
                /\ requests[c].pc = "replied"
                /\ ~requests[c].reply.ok
                /\ requests[c].reply.error \in
                       {"Invalid key or value.", "Invalid key name", "Invalid group name"}
                /\ requests[c].ram = "none" /\ requests[c].disk = "none")
    /\ [][\A c \in Clients :
            Refused(requests'[c]) =>
                UNCHANGED <<store_, evictionQueue_, currentUsage_, disk_>>]_<<vars, rvars>>

\* a delete_group with an empty group was refused while both tiers hold entries
EmptyRejectedWitness ==
    \E c \in Clients :
        /\ requests[c].op = "delete_group" /\ requests[c].group = ""
        /\ requests[c].pc = "replied" /\ ~requests[c].reply.ok
        /\ DOMAIN store_ # {} /\ DOMAIN disk_ # {}

\* C22: a router operation whose durable-tier operation failed ends in an
\* error reply carrying the tier's message, never in a successful reply: the
\* step in which the handler reads the failed future answers with that error
TierFailureReachesCaller ==
    /\ [](\A c \in Clients :
            requests[c].disk = "failed" /\ requests[c].pc = "replied" =>
                /\ ~requests[c].reply.ok
                /\ requests[c].reply.error = StepError(requests[c].op))
    /\ [][\A c \in Clients :
            requests[c].disk = "failed" /\ requests'[c].pc = "replied"
                /\ requests'[c].op = requests[c].op /\ requests[c].pc = "waiting" =>
                requests'[c].reply = ErrorReply(requests[c].diskResp)]_<<vars, rvars>>

\* a delete_key removed the key from the memory store, the durable tier's
\* delete failed, and the caller got the error
TierFailureWitness ==
    \E c \in Clients :
        /\ requests[c].op = "delete_key" /\ requests[c].pc = "replied"
        /\ requests[c].disk = "failed" /\ requests[c].ramResp = 1
        /\ ~requests[c].reply.ok

\* C23: the reply of a router set carries the id of the inbound request
SetReplyId ==
    \A c \in Clients :
        Replied(c, "set") => requests[c].replyId = requests[c].id

\* a persistent set with id "42" was answered by way of the durable tier,
\* after an earlier set had reached the memory tier
SetReplyIdWitness ==
    \E c \in Clients :
        /\ Replied(c, "set")
        /\ requests[c].persistent /\ requests[c].replyId = "42"
        /\ DOMAIN store_ # {}

\* C24: the reply to a get_key, get_group, delete_key, delete_group or list
\* that passed validation and met no tier failure carries the id of the
\* inbound request
ReplyCarriesId ==
    \A c \in Clients :
        LET r == requests[c]
        IN /\ r.pc = "replied"
           /\ r.op \in {"get_key", "get_group", "delete_key", "delete_group", "list"}
           /\ ~Refused(r) /\ r.disk # "failed"
           => r.replyId = r.id

\* C25: delete_key on the memory store answers 1 and removes the key's map
\* entry, its node of the ordering index and its usage when the key is
\* present, answers 0 and changes nothing when it is absent; from then on
\* until a later set of the key completes, the key is not in the map and
\* get_key answers the empty string
DeleteKeyRemoves ==
    /\ [][resp'.op = "delete_key" =>
            LET key == resp'.key
                gone(n) == n.key # key
            IN IF key \in DOMAIN store_
               THEN /\ resp'.response = 1
                    /\ key \notin DOMAIN store_'
                    /\ NodesOf(key) # {}
                    /\ evictionQueue_' = SelectSeq(evictionQueue_, gone)
                    /\ currentUsage_' = currentUsage_ - StoredUsage(store_, key)
               ELSE /\ resp'.response = 0
                    /\ UNCHANGED <<store_, evictionQueue_, currentUsage_>>]_vars
    /\ [](\A k \in Keys : hist[k] = NoHist => k \notin DOMAIN store_)
    /\ [](resp.op = "get_key" /\ hist[resp.key] = NoHist => resp.response = "")

\* a present key was deleted while another entry stays in the store
DeleteKeyRemovesWitness ==
    /\ resp.op = "delete_key" /\ resp.response = 1
    /\ DOMAIN store_ # {}

\* C26: delete_group on the memory store removes exactly the entries of the
\* requested group from the map and from the ordering index, answers their
\* number, and leaves the entries of every other group as they were, in the
\* map and in the ordering index, order included
DeleteGroupFrame ==
    [][resp'.op = "delete_group" =>
          LET group == resp'.group
              ks == {k \in DOMAIN store_ : store_[k].group = group}
              others(n) == n.key \notin ks
          IN /\ DOMAIN store_' = (DOMAIN store_) \ ks
             /\ resp'.response = Cardinality(ks)
             /\ \A k \in DOMAIN store_' : store_'[k] = store_[k]
             /\ evictionQueue_' = SelectSeq(evictionQueue_, others)]_vars

\* a delete_group removed an entry while an entry of another group stays
DeleteGroupFrameWitness ==
    /\ resp.op = "delete_group" /\ resp.response > 0
    /\ \E k \in DOMAIN store_ : store_[k].group # resp.group

\* ttl values a client may send that ask for no expiry
NoExpiryTTLs == {-2, -1, 0}

\* C27: a set with ttl <= 0 stores the entry with the "never" expiration
\* instant, and the TTL sweep never removes such an entry: whenever an entry
\* stored with ttl <= 0 leaves the store, it was deleted, replaced by a later
\* set, or evicted for size
NoExpiryNeverSwept ==
    /\ [](\A ttl \in NoExpiryTTLs, now \in 0..MaxTime :
            ExpirationTime(now, ttl) = time_point_max)
    /\ [](mutex_ = "set" /\ setCtx.ttl <= 0 =>
            setCtx.entry.expirationTime = time_point_max)
    /\ [](\A k \in Keys :
            hist[k] # NoHist /\ hist[k].removedBy = "ttl" =>
                hist[k].expirationTime # time_point_max)
    /\ [][\A k \in DOMAIN store_ :
            store_[k].expirationTime = time_point_max /\ bgPc = "waiting"
                /\ bgPc' = "evicting" =>
                k \in DOMAIN store_' /\ store_'[k] = store_[k]]_vars

\* an entry set with ttl 0 is in the store after a later sweep that removed
\* an expired entry
NoExpiryWitness ==
    \E k \in DOMAIN store_ :
        /\ store_[k].expirationTime = time_point_max
        /\ lastCycleNow > store_[k].insertionTime
        /\ \E j \in Keys : hist[j] # NoHist /\ hist[j].removedBy = "ttl"

\* C28: once the destructor has set the stop flag and notified the condition
\* variable, the background worker leaves its loop and the join returns
TeardownTerminates ==
    (dtorPc = "joining") ~> (dtorPc = "done" /\ bgPc = "exited")

\* the store was torn down after the worker had completed a sweep that
\* removed an entry
TeardownWitness ==
    /\ dtorPc = "done" /\ bgPc = "exited"
    /\ lastCycleNow >= 0
    /\ \E k \in Keys : hist[k] # NoHist /\ hist[k].removedBy # "none"

\* C29: subscribing a handler for a message type that already has one under
\* the same handler id is refused with "Event handler already exists" and
\* leaves the registered handlers as they were; a send reaches the handler
\* that is registered, which is the one subscribed first
DuplicateRefused ==
    /\ [][bus'.op = "subscribe" /\ bus'.id \in DOMAIN handlers_
            /\ bus'.type \in DOMAIN handlers_[bus'.id] =>
                /\ bus'.error = "Event handler already exists"
                /\ handlers_' = handlers_]_<<handlers_, bus>>
    /\ [][bus.op = "subscribe" /\ bus.error # "" /\ bus'.op = "send"
            /\ bus'.id = bus.id /\ bus'.type = bus.type =>
                /\ bus'.error = ""
                /\ bus'.reached = handlers_[bus.id][bus.type]]_<<handlers_, bus>>

\* a second, different callback was refused for a type the caller had
\* subscribed before
DuplicateRefusedWitness ==
    /\ bus.op = "subscribe" /\ bus.error = "Event handler already exists"
    /\ bus.id = "Broadcast"
    /\ handlers_[bus.id][bus.type] # bus.callback

\* C30: unsubscribe answers true and removes the handler when one was
\* registered for the type under the id, also when it was the only handler
\* under the id; it answers false and changes nothing when none was
UnsubscribeAnswers ==
    [][bus'.op = "unsubscribe" =>
          IF bus'.id \in DOMAIN handlers_ /\ bus'.type \in DOMAIN handlers_[bus'.id]
          THEN /\ bus'.result = TRUE
               /\ ~(bus'.id \in DOMAIN handlers_' /\ bus'.type \in DOMAIN handlers_'[bus'.id])
          ELSE /\ bus'.result = FALSE
               /\ handlers_' = handlers_]_<<handlers_, bus>>

\* C33: a request with an event tag handleClient does not know is answered
\* with one error reply, creates no task for either tier, leaves the memory
\* store and the durable store unchanged, and the connection reads its next
\* request afterwards
UnknownTagRejected ==
    /\ [](\A c \in Clients :
            requests[c].op = "unknown" =>
                /\ requests[c].pc = "replied"
                /\ requests[c].reply = ErrorReply("Unknown event type")
                /\ requests[c].ram = "none" /\ requests[c].disk = "none"
                /\ reqCount < MaxRequests => Ready(c))
    /\ [][\A c \in Clients :
            requests'[c].op = "unknown" =>
                UNCHANGED <<store_, evictionQueue_, currentUsage_, disk_>>]_<<vars, rvars>>

\* an unknown tag was refused while the durable tier holds an entry, and
\* the connection can still send a request
UnknownTagWitness ==
    \E c \in Clients :
        /\ requests[c].op = "unknown" /\ requests[c].key = "PING"
        /\ ~requests[c].reply.ok
        /\ DOMAIN disk_ # {}
        /\ Ready(c)

\* C34: a router get_key writes to neither tier: from the step that takes the
\* request to the step that answers it, the memory store's map, ordering
\* index and usage and the durable table stay as they were, also when the
\* value is found only in the durable tier
GetKeyWritesNothing ==
    [][\A c \in Clients :
          requests'[c].op = "get_key" =>
              UNCHANGED <<store_, evictionQueue_, currentUsage_, disk_>>]_<<vars, rvars>>

\* a get_key was answered from the durable tier and the key is still absent
\* from the memory store
GetKeyWritesNothingWitness ==
    \E c \in Clients :
        /\ Replied(c, "get_key") /\ requests[c].disk = "done"
        /\ requests[c].reply.response # ""
        /\ requests[c].key \notin DOMAIN store_
        /\ DOMAIN store_ # {}

\* C35: get_key, get_group and list on the memory store leave the map (with
\* every entry's value, insertion and expiration time), the ordering index
\* and the usage counter as they were; an entry leaves the map only in a
\* delete_key or delete_group, a set of its key, a TTL sweep that finds it
\* expired, or a size eviction
ReadsChangeNothing ==
    /\ [][resp'.op \in {"get_key", "get_group", "list"} =>
            UNCHANGED <<store_, evictionQueue_, currentUsage_>>]_vars
    /\ [][\A k \in DOMAIN store_ :
            k \notin DOMAIN store_' =>
                \/ resp'.op = "delete_key" /\ resp'.key = k
                \/ resp'.op = "delete_group" /\ resp'.group = store_[k].group
                \/ mutex_ = "free" /\ mutex_' = "set" /\ setCtx'.key = k
                \/ bgPc = "waiting" /\ bgPc' = "evicting"
                      /\ clock >= store_[k].expirationTime
                \/ bgPc = "evicting" /\ bgPc' = "evicting"
                      /\ currentUsage_ > maxSizeBytes_]_vars

\* a get_key found its key while an older entry is ahead of it in the
\* ordering index
ReadsChangeNothingWitness ==
    /\ resp.op = "get_key" /\ resp.response # ""
    /\ Len(evictionQueue_) >= 2
    /\ evictionQueue_[Len(evictionQueue_)].key # resp.key
    /\ evictionQueue_[1].time < evictionQueue_[Len(evictionQueue_)].time

\* C36: the worker evicts by size only while usage > max_bytes: every
\* eviction step starts with the usage counter above the limit and removes
\* the front node of the ordering index, so a cycle whose sweep leaves
\* usage <= max_bytes evicts nothing and the eviction ends at the first
\* point where usage <= max_bytes
EvictsOnlyWhileOver ==
    [][bgPc = "evicting" /\ bgPc' = "evicting" =>
          /\ currentUsage_ > maxSizeBytes_
          /\ evictionQueue_ # <<>>
          /\ evictionQueue_' = Tail(evictionQueue_)
          /\ \A k \in (DOMAIN store_) \ (DOMAIN store_') : k = Head(evictionQueue_).key]_vars

\* a cycle evicted the oldest entry, stopped with the bound restored, and
\* left a younger entry in the store
EvictsOnlyWhileOverWitness ==
    /\ bgPc = "waiting" /\ mutex_ = "free"
    /\ currentUsage_ <= maxSizeBytes_
    /\ \E k \in Keys : hist[k] # NoHist /\ hist[k].removedBy = "evict"
    /\ \E j \in DOMAIN store_ : hist[j].removedBy = "none"

\* C37: a set on an existing key replaces its expiration: the stored entry
\* carries the insertion time of the latest set and the expiration computed
\* from that time and that set's ttl alone, and the sweep removes an entry
\* only at or after that expiration, so a key set again with ttl <= 0 or a
\* longer ttl is not removed when the ttl of the earlier set elapses
ReplaceResetsExpiration ==
    /\ [][mutex_ = "set" /\ mutex_' = "free" =>
            LET key == setCtx.key
            IN /\ key \in DOMAIN store_'
               /\ store_'[key].value = setCtx.value
               /\ store_'[key].insertionTime = clock
               /\ store_'[key].expirationTime =
                      IF setCtx.ttl > 0 THEN clock + setCtx.ttl * TicksPerSecond
                      ELSE time_point_max]_vars
    /\ [][bgPc = "waiting" /\ bgPc' = "evicting" =>
            \A k \in (DOMAIN store_) \ (DOMAIN store_') :
                clock >= store_[k].expirationTime]_vars

\* a set with ttl 0 is replacing an entry that was set with a positive ttl
\* and has not expired
ReplaceResetsWitness ==
    /\ mutex_ = "set" /\ setCtx.replaced /\ setCtx.ttl <= 0
    /\ hist[setCtx.key] # NoHist
    /\ hist[setCtx.key].removedBy = "none"
    /\ hist[setCtx.key].expirationTime < time_point_max
    /\ clock < hist[setCtx.key].expirationTime
    /\ setCtx.entry.expirationTime = time_point_max

\* C38: once stopThread_ is set the worker sweeps and evicts no more: a
\* wake-up that finds the flag set leaves the loop with store_,
\* evictionQueue_ and currentUsage_ as they were, and no later step of the
\* worker changes them
StopEndsWorker ==
    [][stopThread_ =>
          /\ UNCHANGED <<store_, evictionQueue_, currentUsage_>>
          /\ bgPc' # "evicting"
          /\ (bgPc = "waiting" /\ bgPc' # "waiting" => bgPc' = "exited")]_vars

\* the worker has left on the stop flag past an entry whose ttl had run out
StopEndsWorkerWitness ==
    /\ stopThread_
    /\ bgPc = "exited"
    /\ \E k \in DOMAIN store_ : Expired(clock, store_[k])
    /\ currentUsage_ > 0

\* C31: a send to a handler id nothing is registered under fails with
\* "Handler not found!", a send of a message type without a handler under a
\* registered id fails with "Event not found!"; neither queues a task nor
\* runs a handler, and any other send queues exactly one task
SendRefusals ==
    [][bus'.op = "send" =>
          IF bus'.id \notin DOMAIN handlers_
          THEN /\ bus'.error = "Handler not found!"
               /\ UNCHANGED <<tasks, handled, sent>>
          ELSE IF bus'.type \notin DOMAIN handlers_[bus'.id]
          THEN /\ bus'.error = "Event not found!"
               /\ UNCHANGED <<tasks, handled, sent>>
          ELSE /\ bus'.error = ""
               /\ Len(tasks') = Len(tasks) + 1
               /\ handled' = handled]_<<handlers_, pvars>>

\* a type without a handler was sent to Broadcast, which has a handler for the
\* other type, while an accepted message was waiting in the queue
SendRefusalsWitness ==
    /\ bus.op = "send" /\ bus.error = "Event not found!"
    /\ bus.id = "Broadcast"
    /\ tasks # <<>>

\* C32: every message send accepted is handled exactly once, by the callback
\* registered for its handler id and message type when it was sent, a waiting
\* caller obtains what that callback returned, and once the queue is empty
\* the callbacks have run as often as sends were accepted
HandledExactlyOnce ==
    /\ [][bus'.op = "run" =>
              /\ bus'.called = bus'.callback
              /\ handled' = handled + 1
              /\ (bus'.waits => bus'.result = bus'.callback)]_<<handlers_, pvars>>
    /\ [](tasks = <<>> => handled = sent)

\* C39: no pool thread calls a handler through a registry entry that
\* unsubscribe has erased since send queued the task
NoErasedEntryUsed ==
    bus.op = "run" => bus.entry = "live"

\* C40: whenever a pool thread runs the task of a sent message, the message
\* object handed to send still exists
MessageOutlivesTask ==
    bus.op = "run" => bus.msg = "alive"

====
